---- MODULE Spec2Model ----
(***************************************************************************)
(* Model of agent_sdk/base_agent.py: the BaseAgent lifecycle controller    *)
(* (initialize / execute / shutdown), its schema validation of task input  *)
(* and output, and its in-process event bus (on_event / _emit_event / log).*)
(*                                                                         *)
(* initialize, shutdown and execute are coroutines: each awaits a hook of  *)
(* the concrete agent, so each is modelled as a call step (everything up   *)
(* to the await) and a return step (everything after it).  Other methods   *)
(* are synchronous and are one step each.                                  *)
(***************************************************************************)
EXTENDS Integers, Sequences, FiniteSets, TLC

VARIABLES
    handlers,     \* self._event_handlers: event type -> list of handlers
    is_running,   \* self.is_running
    context,      \* self.context ("None" before the first initialize)
    config,       \* self.config
    hist,         \* history, the last lifecycle event: "new" (constructed),
                  \* "init_call", "init_ok" / "init_fail" (on_initialize
                  \* returned / raised), "shut" (shutdown called)
    pcInit,       \* number of initialize calls awaiting on_initialize
    pcShut,       \* number of shutdown calls awaiting on_shutdown
    nextTask,     \* number of task identifiers generated so far
    taskEvents,   \* for each execute call awaiting on_execute, by task id:
                  \* the task:* events emitted for the task so far
    lastOp,       \* history: the observable outcome of the last step (for
                  \* execute: task is the call's task identifier, events
                  \* the call's task:* events, carried the task identifiers
                  \* in the data of the events the step emitted)
    health,       \* self.health_status
    manifest_config,   \* self.manifest.get('config', {})
    shutdown_emitted,  \* history: agent:shutdown was emitted since the last
                       \* initialize call
    built,        \* a construction: the keys of the manifest handed to
                  \* __init__, and how __init__ ended
    probe         \* a validation: the value and field schema handed to
                  \* _validate_value, and how it ended

vars == <<handlers, is_running, context, config, hist, pcInit, pcShut,
          nextTask, taskEvents, lastOp, health, manifest_config,
          shutdown_emitted, built, probe>>

(***************************************************************************)
(* Bounds of the exploration.                                              *)
(***************************************************************************)
\* total number of handlers the environment subscribes
MaxHandlers == 2
\* number of execute calls that get a task identifier
MaxTasks == 2
\* number of initialize and shutdown calls suspended at their hook at once
MaxLifecycleCalls == 2
\* nesting depth of _emit_event frames at which the interpreter raises
\* RecursionError (stands for sys.getrecursionlimit())
RecursionLimit == 3

(***************************************************************************)
(* Python values.  A value carries its runtime type; bool is a subclass of *)
(* int, so isinstance(True, int) holds.                                    *)
(***************************************************************************)
PyInt(n)  == [t |-> "int", v |-> n]
PyStr(s)  == [t |-> "str", v |-> s]
PyBool(b) == [t |-> "bool", v |-> b]
PyList    == [t |-> "list", v |-> 0]
PyDict    == [t |-> "dict", v |-> 0]

EmptyMap == [k \in {} |-> 0]

\* isinstance(value, ...) for the classes _validate_value tests
IsList(value)   == value.t = "list"
IsDict(value)   == value.t = "dict"
IsStr(value)    == value.t = "str"
IsBool(value)   == value.t = "bool"
IsNumber(value) == value.t \in {"int", "float", "bool"}

\* the number a numeric value compares as (True is 1, False is 0)
NumOf(value) == IF value.t = "bool" THEN (IF value.v THEN 1 ELSE 0) ELSE value.v

DigitChars == <<"0", "1", "2", "3", "4", "5", "6", "7", "8", "9">>

\* the decimal digits of a natural number, as characters
RECURSIVE Digits(_)
Digits(n) ==
    IF n < 10 THEN <<DigitChars[n + 1]>>
    ELSE Append(Digits(n \div 10), DigitChars[(n % 10) + 1])

\* str(value), as a sequence of characters
StrOf(value) ==
    CASE value.t = "str"  -> value.v
      [] value.t = "bool" -> IF value.v THEN <<"T", "r", "u", "e">>
                                        ELSE <<"F", "a", "l", "s", "e">>
      [] value.t = "int"  -> IF value.v < 0 THEN <<"-">> \o Digits(-value.v)
                                            ELSE Digits(value.v)
      [] value.t = "list" -> <<"[", "]">>
      [] value.t = "dict" -> <<"{", "}">>

\* re.match(pattern, s) for a pattern that is a literal, optionally ended by $
ReMatch(pattern, s) ==
    /\ Len(s) >= Len(pattern.lit)
    /\ SubSeq(s, 1, Len(pattern.lit)) = pattern.lit
    /\ pattern.full =>
          \/ Len(s) = Len(pattern.lit)
          \/ Len(s) = Len(pattern.lit) + 1 /\ s[Len(s)] = "\n"

(***************************************************************************)
(* Validation.  A validator returns NoError or the exception it raises.    *)
(***************************************************************************)
NoError == [exc |-> "none", constraint |-> "none", path |-> "none"]
Raise(e, c, p) == [exc |-> e, constraint |-> c, path |-> p]

HasKey(m, k) == k \in DOMAIN m

\* a == b of Python: numbers compare by value (True == 1), other values
\* by type and content
PyEq(a, b) ==
    IF IsNumber(a) /\ IsNumber(b) THEN NumOf(a) = NumOf(b)
    ELSE a.t = b.t /\ a.v = b.v

\* value in collection
PyIn(value, collection) == \E e \in collection : PyEq(value, e)

\* The checks run in the order of the source and the first one that fails
\* raises.  value < limit and value > limit raise TypeError unless value is
\* a number.
_validate_constraints(value, constraints, path) ==
    IF HasKey(constraints, "min") /\ ~IsNumber(value)
    THEN Raise("TypeError", "min", path)
    ELSE IF HasKey(constraints, "min") /\ NumOf(value) < constraints.min
    THEN Raise("ValueError", "min", path)
    ELSE IF HasKey(constraints, "max") /\ ~IsNumber(value)
    THEN Raise("TypeError", "max", path)
    ELSE IF HasKey(constraints, "max") /\ NumOf(value) > constraints.max
    THEN Raise("ValueError", "max", path)
    ELSE IF HasKey(constraints, "minLength")
            /\ Len(StrOf(value)) < constraints.minLength
    THEN Raise("ValueError", "minLength", path)
    ELSE IF HasKey(constraints, "maxLength")
            /\ Len(StrOf(value)) > constraints.maxLength
    THEN Raise("ValueError", "maxLength", path)
    ELSE IF HasKey(constraints, "pattern")
            /\ ~ReMatch(constraints.pattern, StrOf(value))
    THEN Raise("ValueError", "pattern", path)
    ELSE IF HasKey(constraints, "enum") /\ ~PyIn(value, constraints.enum)
    THEN Raise("ValueError", "enum", path)
    ELSE NoError

_validate_value(value, schema, path) ==
    LET expected_type == schema.type IN
    IF expected_type = "array" /\ ~IsList(value)
    THEN Raise("ValueError", "type", path)
    ELSE IF expected_type = "object" /\ ~IsDict(value)
    THEN Raise("ValueError", "type", path)
    ELSE IF expected_type \in {"string", "text"} /\ ~IsStr(value)
    THEN Raise("ValueError", "type", path)
    ELSE IF expected_type = "number" /\ ~IsNumber(value)
    THEN Raise("ValueError", "type", path)
    ELSE IF expected_type = "boolean" /\ ~IsBool(value)
    THEN Raise("ValueError", "type", path)
    ELSE IF DOMAIN schema.constraints # {}
    THEN _validate_constraints(value, schema.constraints, path)
    ELSE NoError

\* A schema mapping is the list of its items in insertion order, which is
\* the order the validators iterate in; the first failure is the one raised.
RECURSIVE ValidateInputFrom(_, _, _)
ValidateInputFrom(items, i, input_data) ==
    IF i > Len(items) THEN NoError
    ELSE LET key == items[i].key
             schema == items[i].schema
         IN  IF schema.required /\ ~HasKey(input_data, key)
             THEN Raise("ValueError", "missing", key)
             ELSE LET r == IF HasKey(input_data, key)
                           THEN _validate_value(input_data[key], schema, key)
                           ELSE NoError
                  IN  IF r.exc # "none" THEN r
                      ELSE ValidateInputFrom(items, i + 1, input_data)

RECURSIVE ValidateOutputFrom(_, _, _)
ValidateOutputFrom(items, i, output_data) ==
    IF i > Len(items) THEN NoError
    ELSE LET key == items[i].key
             schema == items[i].schema
         IN  IF ~HasKey(output_data, key)
             THEN Raise("ValueError", "missing", key)
             ELSE LET r == _validate_value(output_data[key], schema, key)
                  IN  IF r.exc # "none" THEN r
                      ELSE ValidateOutputFrom(items, i + 1, output_data)

(***************************************************************************)
(* The manifest of the agent under exploration: a required, constrained    *)
(* input, an optional input, and one output of each required flag.         *)
(***************************************************************************)
Field(k, ty, req, cons) ==
    [key |-> k, schema |-> [type |-> ty, required |-> req, constraints |-> cons]]

Manifest ==
    [inputs  |-> << Field("amount", "number", TRUE, [min |-> 0]),
                    Field("note", "string", FALSE, EmptyMap) >>,
     outputs |-> << Field("result", "number", TRUE, EmptyMap),
                    Field("extra", "string", FALSE, EmptyMap) >>,
     config  |-> [retries |-> 1, timeout |-> 10]]

\* {**defaults, **overrides}
DictMerge(defaults, overrides) ==
    [k \in DOMAIN defaults \cup DOMAIN overrides |->
        IF k \in DOMAIN overrides THEN overrides[k] ELSE defaults[k]]

_validate_input(input_data) ==
    ValidateInputFrom(Manifest.inputs, 1, input_data)

\* variant: outputs validated by the rule of inputs (absence is an error
\* only for a field flagged required)
_validate_output_by_flag(output_data) ==
    ValidateInputFrom(Manifest.outputs, 1, output_data)

_validate_output(output_data) ==
    ValidateOutputFrom(Manifest.outputs, 1, output_data)

(***************************************************************************)
(* Event bus.                                                              *)
(***************************************************************************)
EventTypes == {"agent:initialized", "agent:shutdown", "task:started",
               "task:completed", "task:failed", "log", "event:published",
               "health:updated"}

\* Behaviours of the subscribed callables:
\*   ok    returns
\*   raise raises an Exception
\*   sub   on its first invocation subscribes a further ok handler to the
\*         event type it is being delivered, then behaves as ok
Kinds == {"ok", "raise", "sub"}

Weight(kind) == IF kind = "sub" THEN 2 ELSE 1

RECURSIVE SeqWeight(_)
SeqWeight(s) == IF s = <<>> THEN 0 ELSE Weight(Head(s)) + SeqWeight(Tail(s))

RECURSIVE SumOver(_, _)
SumOver(f, S) ==
    IF S = {} THEN 0
    ELSE LET x == CHOOSE y \in S : TRUE
         IN  SeqWeight(f[x]) + SumOver(f, S \ {x})

\* handlers the environment has subscribed or committed to subscribing
TotalHandlers(h) == SumOver(h, EventTypes)

\* trace entries: the start of an emission, and the invocation of a handler
\* (marked "raised" when the handler raises)
EmitMark(t, d) == [k |-> "emit", ev |-> t, i |-> 0, d |-> d]
CallMark(t, i, d, kind) ==
    [k |-> (IF kind = "raise" THEN "raised" ELSE "call"), ev |-> t, i |-> i, d |-> d]

LogLevels == {"debug", "info", "warn", "error"}

\* the levels for which the Python logger makes a record, logging being at
\* its default configuration (threshold WARNING)
LoggerEnabledFor(level) == level \in {"warn", "error"}

\* names the logger refuses as keys of extra: "message", "asctime" and every
\* attribute a LogRecord has when it is made.  A key of extra with one of
\* these names makes the logger raise KeyError when it makes the record
LogRecordAttributes ==
    {"message", "asctime", "name", "msg", "args", "levelname", "levelno",
     "pathname", "filename", "module", "exc_info", "exc_text", "stack_info",
     "lineno", "funcName", "created", "msecs", "relativeCreated", "thread",
     "threadName", "processName", "process"}

\* _emit_event at nesting depth d.  The for loop reads the live list, so a
\* handler appended during delivery is reached by the same loop.  A raising
\* handler is caught and reported through log(), which emits a log event
\* one frame deeper; an exception leaving log() leaves the except clause
\* and so leaves _emit_event.
RECURSIVE Deliver(_, _, _, _, _)
RECURSIVE _emit_event(_, _, _, _)
RECURSIVE log(_, _, _, _, _)
Deliver(h, t, i, d, tr) ==
    IF i > Len(h[t]) THEN [h |-> h, tr |-> tr, exc |-> "none"]
    ELSE LET kind == h[t][i]
             tr1 == Append(tr, CallMark(t, i, d, kind))
         IN  CASE kind = "raise" ->
                    LET r == log(h, "error", EmptyMap, d + 1, tr1)
                    IN  IF r.exc # "none" THEN r
                        ELSE Deliver(r.h, t, i + 1, d, r.tr)
               [] kind = "sub" ->
                    Deliver([h EXCEPT ![t] = Append([@ EXCEPT ![i] = "sub_done"], "ok")],
                            t, i + 1, d, tr1)
               [] OTHER -> Deliver(h, t, i + 1, d, tr1)

_emit_event(h, event_type, d, tr) ==
    IF d > RecursionLimit
    THEN [h |-> h, tr |-> tr, exc |-> "RecursionError"]
    ELSE Deliver(h, event_type, 1, d, Append(tr, EmitMark(event_type, d)))

\* log(level, message, data): builds the entry, hands the message to the
\* Python logger with extra=data, and emits the entry as a log event
log(h, level, data, d, tr) ==
    IF LoggerEnabledFor(level) /\ DOMAIN data \cap LogRecordAttributes # {}
    THEN [h |-> h, tr |-> tr, exc |-> "KeyError"]
    ELSE _emit_event(h, "log", d, tr)

(***************************************************************************)
(* Initial state: the state __init__ leaves.                               *)
(***************************************************************************)
NoOp == [op |-> "none", step |-> "sync", pending |-> FALSE, arg |-> EmptyMap, task |-> 0,
         pre_running |-> FALSE, pre_hist |-> "new",
         pre_handlers |-> [t \in EventTypes |-> <<>>],
         trace |-> <<>>, exc |-> "none", orig |-> "none", verr |-> NoError,
         hook |-> "none", events |-> <<>>, carried |-> {},
         returned |-> FALSE]

\* task ids of the execute calls awaiting on_execute
inflight == DOMAIN taskEvents

\* AgentHealth(status="healthy", details={}, metrics={})
InitialHealth == [status |-> "healthy", details |-> EmptyMap, metrics |-> EmptyMap]

\* the attributes __init__ assigns
InitAttributes ==
    /\ handlers = [t \in EventTypes |-> <<>>]
    /\ is_running = FALSE
    /\ context = "None"
    /\ config = EmptyMap
    /\ health = InitialHealth
    /\ hist = "new"
    /\ pcInit = 0
    /\ pcShut = 0
    /\ nextTask = 0
    /\ taskEvents = EmptyMap
    /\ shutdown_emitted = FALSE
    /\ lastOp = NoOp

NoBuild == [keys |-> {}, metadata |-> {}, result |-> NoError, done |-> FALSE]
NoProbe == [value |-> PyInt(0), schema |-> EmptyMap, path |-> "none",
            result |-> NoError, done |-> FALSE]

\* the agent constructed from Manifest
Init ==
    /\ InitAttributes
    /\ manifest_config = Manifest.config
    /\ built = NoBuild
    /\ probe = NoProbe

\* the record of a step, from the state it starts in
Op(name) == [NoOp EXCEPT !.op = name, !.pre_running = is_running,
                         !.pre_hist = hist, !.pre_handlers = handlers]

(***************************************************************************)
(* Event bus operations.                                                   *)
(***************************************************************************)
on_event(event_type, handler) ==
    /\ TotalHandlers(handlers) + Weight(handler) <= MaxHandlers
    /\ handlers' = [handlers EXCEPT ![event_type] = Append(@, handler)]
    /\ lastOp' = Op("on_event")
    /\ UNCHANGED <<health, probe, built, manifest_config, shutdown_emitted,
                   is_running, context, config, hist, pcInit, pcShut,
                   nextTask, taskEvents>>

publish_event ==
    LET r == _emit_event(handlers, "event:published", 1, <<>>)
    IN  /\ handlers' = r.h
        /\ lastOp' = [Op("publish_event") EXCEPT !.trace = r.tr, !.exc = r.exc,
                                                 !.returned = (r.exc = "none")]
        /\ UNCHANGED <<health, probe, built, manifest_config,
                       shutdown_emitted, is_running, context, config, hist,
                       pcInit, pcShut, nextTask, taskEvents>>

\* the data argument of log (None is replaced by the empty mapping)
LogData ==
    {EmptyMap, [detail |-> 1], [message |-> 1], [detail |-> 1, lineno |-> 2]}

log_call(level, data) ==
    LET r == log(handlers, level, data, 1, <<>>)
    IN  /\ handlers' = r.h
        /\ lastOp' = [Op("log") EXCEPT !.trace = r.tr, !.exc = r.exc,
                                       !.arg = [level |-> level, data |-> data],
                                       !.returned = (r.exc = "none")]
        /\ UNCHANGED <<health, probe, built, manifest_config,
                       shutdown_emitted, is_running, context, config, hist,
                       pcInit, pcShut, nextTask, taskEvents>>

(***************************************************************************)
(* Health.  The arguments of update_health are a mapping: an argument left *)
(* at its default None is a key the mapping does not have.                 *)
(***************************************************************************)
HealthUpdates ==
    { EmptyMap,
      [status |-> "degraded"],
      [details |-> [cause |-> 1]],
      [metrics |-> [a |-> 1]],
      [metrics |-> [b |-> 2]],
      [metrics |-> [a |-> 3]],
      [status |-> "unhealthy", details |-> [cause |-> 2],
       metrics |-> [a |-> 1, b |-> 5]] }

\* variant: a given details or metrics mapping replaces the stored one
update_health_replaces(u) ==
    LET r == _emit_event(handlers, "health:updated", 1, <<>>)
    IN  /\ health' = [status  |-> IF HasKey(u, "status") THEN u.status
                                  ELSE health.status,
                      details |-> IF HasKey(u, "details") THEN u.details
                                  ELSE health.details,
                      metrics |-> IF HasKey(u, "metrics") THEN u.metrics
                                  ELSE health.metrics]
        /\ handlers' = r.h
        /\ lastOp' = [Op("update_health") EXCEPT
                         !.arg = u, !.trace = r.tr, !.exc = r.exc,
                         !.returned = (r.exc = "none")]
        /\ UNCHANGED <<probe, built, manifest_config, shutdown_emitted,
                       is_running, context, config, hist, pcInit, pcShut,
                       nextTask, taskEvents>>

\* update_health(status, details, metrics)
update_health(u) ==
    LET r == _emit_event(handlers, "health:updated", 1, <<>>)
    IN  /\ health' = [status  |-> IF HasKey(u, "status") THEN u.status
                                  ELSE health.status,
                      details |-> IF HasKey(u, "details")
                                  THEN DictMerge(health.details, u.details)
                                  ELSE health.details,
                      metrics |-> IF HasKey(u, "metrics")
                                  THEN DictMerge(health.metrics, u.metrics)
                                  ELSE health.metrics]
        /\ handlers' = r.h
        /\ lastOp' = [Op("update_health") EXCEPT
                         !.arg = u, !.trace = r.tr, !.exc = r.exc,
                         !.returned = (r.exc = "none")]
        /\ UNCHANGED <<probe, built, manifest_config, shutdown_emitted,
                       is_running, context, config, hist, pcInit, pcShut,
                       nextTask, taskEvents>>

(***************************************************************************)
(* Lifecycle operations.                                                   *)
(***************************************************************************)
Contexts == {"s1"}

\* caller-supplied configurations (None is replaced by the empty mapping)
Configs == {[timeout |-> 30]}

\* what a hook of the concrete agent does when awaited
HookReturns == {TRUE, FALSE}

\* variant: the manifest's defaults win over the caller's values
initialize_call_defaults_win(ctx, cfg) ==
    /\ pcInit + pcShut < MaxLifecycleCalls
    /\ context' = ctx
    /\ config' = DictMerge(cfg, manifest_config)
    /\ shutdown_emitted' = FALSE
    /\ is_running' = TRUE
    /\ pcInit' = pcInit + 1
    /\ hist' = "init_call"
    /\ lastOp' = [Op("initialize") EXCEPT !.step = "call", !.pending = TRUE,
                                   !.hook = "called", !.arg = cfg]
    /\ UNCHANGED <<health, probe, built, manifest_config, handlers, pcShut,
                   nextTask, taskEvents>>

\* initialize(context, config), up to the await of on_initialize
initialize_call(ctx, cfg) ==
    /\ pcInit + pcShut < MaxLifecycleCalls
    /\ context' = ctx
    /\ config' = DictMerge(manifest_config, cfg)
    /\ shutdown_emitted' = FALSE
    /\ is_running' = TRUE
    /\ pcInit' = pcInit + 1
    /\ hist' = "init_call"
    /\ lastOp' = [Op("initialize") EXCEPT !.step = "call", !.pending = TRUE,
                                   !.hook = "called", !.arg = cfg]
    /\ UNCHANGED <<health, probe, built, manifest_config, handlers, pcShut,
                   nextTask, taskEvents>>

\* variant: agent:initialized is emitted whether or not the hook raised
initialize_return_emits_always(hook_ok) ==
    /\ pcInit > 0
    /\ pcInit' = pcInit - 1
    /\ LET r == _emit_event(handlers, "agent:initialized", 1, <<>>)
       IN  /\ handlers' = r.h
           /\ hist' = IF hook_ok THEN "init_ok" ELSE "init_fail"
           /\ lastOp' = [Op("initialize") EXCEPT
                 !.step = "return",
                 !.hook = IF hook_ok THEN "returned" ELSE "raised",
                 !.trace = r.tr,
                 !.exc = IF hook_ok THEN r.exc ELSE "HookError",
                 !.orig = IF hook_ok THEN r.exc ELSE "HookError",
                 !.returned = (hook_ok /\ r.exc = "none")]
    /\ UNCHANGED <<health, probe, built, manifest_config, shutdown_emitted,
                   is_running, context, config, pcShut, nextTask, taskEvents>>

\* initialize, from the completion of on_initialize
initialize_return(hook_ok) ==
    /\ pcInit > 0
    /\ pcInit' = pcInit - 1
    /\ IF hook_ok
       THEN LET r == _emit_event(handlers, "agent:initialized", 1, <<>>)
            IN  /\ handlers' = r.h
                /\ hist' = "init_ok"
                /\ lastOp' = [Op("initialize") EXCEPT
                                 !.step = "return", !.hook = "returned",
                                 !.trace = r.tr,
                                 !.exc = r.exc, !.orig = r.exc,
                                 !.returned = (r.exc = "none")]
       ELSE /\ handlers' = handlers
            /\ hist' = "init_fail"
            /\ lastOp' = [Op("initialize") EXCEPT
                             !.step = "return", !.hook = "raised",
                             !.exc = "HookError",
                             !.orig = "HookError"]
    /\ UNCHANGED <<health, probe, built, manifest_config, shutdown_emitted,
                   is_running, context, config, pcShut, nextTask, taskEvents>>

\* variant: shutdown leaves is_running as it is
shutdown_call_keeps_running ==
    /\ pcInit + pcShut < MaxLifecycleCalls
    /\ pcShut' = pcShut + 1
    /\ hist' = "shut"
    /\ lastOp' = [Op("shutdown") EXCEPT !.step = "call", !.pending = TRUE,
                                   !.hook = "called"]
    /\ UNCHANGED <<health, probe, built, manifest_config, shutdown_emitted,
                   handlers, is_running, context, config, pcInit, nextTask,
                   taskEvents>>

\* shutdown(), up to the await of on_shutdown
shutdown_call ==
    /\ pcInit + pcShut < MaxLifecycleCalls
    /\ is_running' = FALSE
    /\ pcShut' = pcShut + 1
    /\ hist' = "shut"
    /\ lastOp' = [Op("shutdown") EXCEPT !.step = "call", !.pending = TRUE,
                                   !.hook = "called"]
    /\ UNCHANGED <<health, probe, built, manifest_config, shutdown_emitted,
                   handlers, context, config, pcInit, nextTask, taskEvents>>

\* variant: agent:shutdown is emitted by the first shutdown only
shutdown_return_emits_first_time_only(hook_ok) ==
    /\ pcShut > 0
    /\ pcShut' = pcShut - 1
    /\ IF hook_ok
       THEN LET r == IF shutdown_emitted
                          THEN [h |-> handlers, tr |-> <<>>, exc |-> "none"]
                          ELSE _emit_event(handlers, "agent:shutdown", 1, <<>>)
            IN  /\ handlers' = r.h
                /\ shutdown_emitted' = TRUE
                /\ lastOp' = [Op("shutdown") EXCEPT
                                 !.step = "return", !.hook = "returned",
                                 !.trace = r.tr,
                                 !.exc = r.exc, !.orig = r.exc,
                                 !.returned = (r.exc = "none")]
       ELSE /\ handlers' = handlers
            /\ shutdown_emitted' = shutdown_emitted
            /\ lastOp' = [Op("shutdown") EXCEPT
                             !.step = "return", !.hook = "raised",
                             !.exc = "HookError",
                             !.orig = "HookError"]
    /\ UNCHANGED <<health, probe, built, manifest_config, is_running,
                   context, config, hist, pcInit, nextTask, taskEvents>>

\* shutdown, from the completion of on_shutdown
shutdown_return(hook_ok) ==
    /\ pcShut > 0
    /\ pcShut' = pcShut - 1
    /\ IF hook_ok
       THEN LET r == _emit_event(handlers, "agent:shutdown", 1, <<>>)
            IN  /\ handlers' = r.h
                /\ shutdown_emitted' = TRUE
                /\ lastOp' = [Op("shutdown") EXCEPT
                                 !.step = "return", !.hook = "returned",
                                 !.trace = r.tr,
                                 !.exc = r.exc, !.orig = r.exc,
                                 !.returned = (r.exc = "none")]
       ELSE /\ handlers' = handlers
            /\ shutdown_emitted' = shutdown_emitted
            /\ lastOp' = [Op("shutdown") EXCEPT
                             !.step = "return", !.hook = "raised",
                             !.exc = "HookError",
                             !.orig = "HookError"]
    /\ UNCHANGED <<health, probe, built, manifest_config, is_running,
                   context, config, hist, pcInit, nextTask, taskEvents>>

\* task inputs offered to execute
Inputs ==
    { EmptyMap,
      [k \in {"amount"} |-> PyInt(-5)],
      [k \in {"amount"} |-> PyInt(10)],
      [k \in {"amount", "note"} |-> PyInt(10)] }

\* result mappings on_execute returns
HookResults ==
    { [k \in {"extra"} |-> PyStr(<<"e">>)],
      [k \in {"result"} |-> PyInt(1)],
      [k \in {"result", "extra"} |-> IF k = "result" THEN PyInt(1)
                                                      ELSE PyStr(<<"e">>)] }

\* the except clause of execute: emit task:failed, then re-raise; an
\* exception raised by the emission replaces the one being handled
ExceptClause(h, tr, error) ==
    LET r == _emit_event(h, "task:failed", 1, tr)
    IN  [h |-> r.h, tr |-> r.tr,
         exc |-> IF r.exc # "none" THEN r.exc ELSE error]

\* variant: the task identifier is not fresh
execute_call_reuses_id(input_data) ==
    IF ~is_running
    THEN /\ lastOp' = [Op("execute") EXCEPT !.step = "call",
                                            !.arg = input_data,
                                            !.exc = "RuntimeError",
                                            !.orig = "RuntimeError"]
         /\ UNCHANGED <<health, probe, built, manifest_config,
                        shutdown_emitted, handlers, is_running, context,
                        config, hist, pcInit, pcShut, nextTask, taskEvents>>
    ELSE /\ nextTask < MaxTasks
         /\ LET task_id == 1
                started == _emit_event(handlers, "task:started", 1, <<>>)
                verr == IF started.exc # "none" THEN NoError
                        ELSE _validate_input(input_data)
                error == IF started.exc # "none" THEN started.exc ELSE verr.exc
                op == [Op("execute") EXCEPT !.step = "call",
                                            !.arg = input_data,
                                            !.task = task_id, !.verr = verr,
                                            !.carried = {task_id}]
            IN  /\ nextTask' = nextTask + 1
                /\ IF error # "none"
                   THEN LET f == ExceptClause(started.h, started.tr, error)
                        IN  /\ handlers' = f.h
                            /\ taskEvents' = taskEvents
                            /\ lastOp' = [op EXCEPT
                                  !.trace = f.tr, !.exc = f.exc, !.orig = error,
                                  !.events = <<"task:started", "task:failed">>]
                   ELSE /\ handlers' = started.h
                        /\ taskEvents' =
                              [t \in inflight \cup {task_id} |->
                                 IF t = task_id THEN <<"task:started">>
                                 ELSE taskEvents[t]]
                        /\ lastOp' = [op EXCEPT
                                  !.trace = started.tr, !.pending = TRUE,
                                  !.hook = "called",
                                  !.events = <<"task:started">>]
         /\ UNCHANGED <<health, probe, built, manifest_config,
                        shutdown_emitted, is_running, context, config, hist,
                        pcInit, pcShut>>

\* execute(input_data), up to the await of on_execute
execute_call(input_data) ==
    IF ~is_running
    THEN /\ lastOp' = [Op("execute") EXCEPT !.step = "call",
                                            !.arg = input_data,
                                            !.exc = "RuntimeError",
                                            !.orig = "RuntimeError"]
         /\ UNCHANGED <<health, probe, built, manifest_config,
                        shutdown_emitted, handlers, is_running, context,
                        config, hist, pcInit, pcShut, nextTask, taskEvents>>
    ELSE /\ nextTask < MaxTasks
         /\ LET task_id == nextTask + 1
                started == _emit_event(handlers, "task:started", 1, <<>>)
                verr == IF started.exc # "none" THEN NoError
                        ELSE _validate_input(input_data)
                error == IF started.exc # "none" THEN started.exc ELSE verr.exc
                op == [Op("execute") EXCEPT !.step = "call",
                                            !.arg = input_data,
                                            !.task = task_id, !.verr = verr,
                                            !.carried = {task_id}]
            IN  /\ nextTask' = task_id
                /\ IF error # "none"
                   THEN LET f == ExceptClause(started.h, started.tr, error)
                        IN  /\ handlers' = f.h
                            /\ taskEvents' = taskEvents
                            /\ lastOp' = [op EXCEPT
                                  !.trace = f.tr, !.exc = f.exc, !.orig = error,
                                  !.events = <<"task:started", "task:failed">>]
                   ELSE /\ handlers' = started.h
                        /\ taskEvents' =
                              [t \in inflight \cup {task_id} |->
                                 IF t = task_id THEN <<"task:started">>
                                 ELSE taskEvents[t]]
                        /\ lastOp' = [op EXCEPT
                                  !.trace = started.tr, !.pending = TRUE,
                                  !.hook = "called",
                                  !.events = <<"task:started">>]
         /\ UNCHANGED <<health, probe, built, manifest_config,
                        shutdown_emitted, is_running, context, config, hist,
                        pcInit, pcShut>>

\* variant: the running check is made again when the hook has returned
execute_return_checks_running(task_id, hook_ok, result) ==
    /\ task_id \in inflight
    /\ taskEvents' = [t \in inflight \ {task_id} |-> taskEvents[t]]
    /\ LET verr == IF hook_ok /\ ~is_running
                   THEN Raise("RuntimeError", "none", "none")
                   ELSE IF hook_ok THEN _validate_output(result) ELSE NoError
           completed == _emit_event(handlers, "task:completed", 1, <<>>)
           error == CASE ~hook_ok -> "HookError"
                      [] hook_ok /\ verr.exc # "none" -> verr.exc
                      [] OTHER -> completed.exc
           op == [Op("execute") EXCEPT
                    !.step = "return",
                    !.arg = IF hook_ok THEN result ELSE EmptyMap,
                    !.task = task_id, !.verr = verr,
                    !.carried = {task_id},
                    !.hook = IF hook_ok THEN "returned" ELSE "raised"]
       IN  IF ~hook_ok \/ verr.exc # "none"
           THEN LET f == ExceptClause(handlers, <<>>, error)
                IN  /\ handlers' = f.h
                    /\ lastOp' = [op EXCEPT
                          !.trace = f.tr, !.exc = f.exc, !.orig = error,
                          !.events = Append(taskEvents[task_id], "task:failed")]
           ELSE IF completed.exc # "none"
           THEN LET f == ExceptClause(completed.h, completed.tr, error)
                IN  /\ handlers' = f.h
                    /\ lastOp' = [op EXCEPT
                          !.trace = f.tr, !.exc = f.exc, !.orig = error,
                          !.events = taskEvents[task_id]
                                       \o <<"task:completed", "task:failed">>]
           ELSE /\ handlers' = completed.h
                /\ lastOp' = [op EXCEPT
                      !.trace = completed.tr, !.returned = TRUE,
                      !.events = Append(taskEvents[task_id], "task:completed")]
    /\ UNCHANGED <<health, probe, built, manifest_config, shutdown_emitted,
                   is_running, context, config, hist, pcInit, pcShut,
                   nextTask>>

\* execute, from the completion of on_execute: hook_ok says whether the
\* hook returned (with result) or raised
execute_return(task_id, hook_ok, result) ==
    /\ task_id \in inflight
    /\ taskEvents' = [t \in inflight \ {task_id} |-> taskEvents[t]]
    /\ LET verr == IF hook_ok THEN _validate_output(result) ELSE NoError
           completed == _emit_event(handlers, "task:completed", 1, <<>>)
           error == CASE ~hook_ok -> "HookError"
                      [] hook_ok /\ verr.exc # "none" -> verr.exc
                      [] OTHER -> completed.exc
           op == [Op("execute") EXCEPT
                    !.step = "return",
                    !.arg = IF hook_ok THEN result ELSE EmptyMap,
                    !.task = task_id, !.verr = verr,
                    !.carried = {task_id},
                    !.hook = IF hook_ok THEN "returned" ELSE "raised"]
       IN  IF ~hook_ok \/ verr.exc # "none"
           THEN LET f == ExceptClause(handlers, <<>>, error)
                IN  /\ handlers' = f.h
                    /\ lastOp' = [op EXCEPT
                          !.trace = f.tr, !.exc = f.exc, !.orig = error,
                          !.events = Append(taskEvents[task_id], "task:failed")]
           ELSE IF completed.exc # "none"
           THEN LET f == ExceptClause(completed.h, completed.tr, error)
                IN  /\ handlers' = f.h
                    /\ lastOp' = [op EXCEPT
                          !.trace = f.tr, !.exc = f.exc, !.orig = error,
                          !.events = taskEvents[task_id]
                                       \o <<"task:completed", "task:failed">>]
           ELSE /\ handlers' = completed.h
                /\ lastOp' = [op EXCEPT
                      !.trace = completed.tr, !.returned = TRUE,
                      !.events = Append(taskEvents[task_id], "task:completed")]
    /\ UNCHANGED <<health, probe, built, manifest_config, shutdown_emitted,
                   is_running, context, config, hist, pcInit, pcShut,
                   nextTask>>

\* execute, when the await of on_execute ends with a BaseException that is
\* not an Exception (CancelledError when the awaiting task is cancelled):
\* "except Exception" does not catch it, so it leaves execute with no
\* further event
execute_cancelled(task_id) ==
    /\ task_id \in inflight
    /\ taskEvents' = [t \in inflight \ {task_id} |-> taskEvents[t]]
    /\ lastOp' = [Op("execute") EXCEPT
                     !.step = "return", !.task = task_id,
                     !.hook = "cancelled",
                     !.exc = "CancelledError", !.orig = "CancelledError",
                     !.events = taskEvents[task_id]]
    /\ UNCHANGED <<health, probe, built, manifest_config, shutdown_emitted,
                   handlers, is_running, context, config, hist, pcInit,
                   pcShut, nextTask>>

\* Event types that have subscribers while the lifecycle is explored (the
\* events of a task, and log), and the behaviour of the subscribers: a
\* handler that returns leaves the state of the agent and the outcome of
\* the emitting operation as they are (its delivery is explored under
\* SpecBus), a handler that raises sends the emission through log().
LifecycleEvents == {"task:started", "task:completed", "task:failed", "log"}
LifecycleKinds == {"raise"}

Next ==
    \/ \E t \in LifecycleEvents, k \in LifecycleKinds : on_event(t, k)
    \/ \E ctx \in Contexts, cfg \in Configs : initialize_call(ctx, cfg)
    \/ \E ok \in HookReturns : initialize_return(ok)
    \/ shutdown_call
    \/ \E ok \in HookReturns : shutdown_return(ok)
    \/ \E input_data \in Inputs : execute_call(input_data)
    \/ \E task_id \in inflight, result \in HookResults :
          execute_return(task_id, TRUE, result)
    \/ \E task_id \in inflight : execute_return(task_id, FALSE, EmptyMap)
    \/ \E task_id \in inflight : execute_cancelled(task_id)

\* the agent's lifecycle under every interleaving of its coroutines
Spec == Init /\ [][Next]_vars

NextBus ==
    \/ \E t \in EventTypes, k \in Kinds : on_event(t, k)
    \/ publish_event
    \/ \E level \in LogLevels, data \in LogData : log_call(level, data)

\* the event bus alone: subscriptions and synchronous emissions
SpecBus == Init /\ [][NextBus]_vars

(***************************************************************************)
(* Validation of one value against one field schema.                       *)
(***************************************************************************)
ProbeValues ==
    { PyInt(-5), PyInt(10), PyStr(<<"a", "b">>), PyStr(<<"a", "b", "c">>),
      PyStr(<<"a", "b", "\n">>), PyBool(TRUE), PyList, PyDict }

ProbeTypes == {"array", "object", "string", "text", "number", "boolean"}

\* constraints mappings; a pattern is a literal, and "full" says that it
\* ends in $
ProbeConstraints ==
    { EmptyMap,
      [min |-> 0],
      [max |-> 5],
      [min |-> 0, max |-> 5],
      [minLength |-> 3],
      [maxLength |-> 2],
      [pattern |-> [lit |-> <<"a", "b">>, full |-> FALSE]],
      [pattern |-> [lit |-> <<"a", "b">>, full |-> TRUE]],
      [enum |-> {PyInt(10), PyStr(<<"a", "b">>)}] }

ProbePath == "field"

\* the validator is about to be called on any of the values and schemas
InitProbe ==
    /\ InitAttributes
    /\ manifest_config = Manifest.config
    /\ built = NoBuild
    /\ \E value \in ProbeValues, ty \in ProbeTypes,
          constraints \in ProbeConstraints :
          probe = [NoProbe EXCEPT
                      !.value = value,
                      !.schema = [type |-> ty, required |-> TRUE,
                                  constraints |-> constraints],
                      !.path = ProbePath]

\* self._validate_value(value, schema, path)
validate_probe ==
    /\ ~probe.done
    /\ probe' = [probe EXCEPT
                    !.result = _validate_value(probe.value, probe.schema,
                                               probe.path),
                    !.done = TRUE]
    /\ lastOp' = Op("_validate_value")
    /\ UNCHANGED <<health, built, manifest_config, shutdown_emitted, handlers,
                   is_running, context, config, hist, pcInit, pcShut,
                   nextTask, taskEvents>>

\* the schema validator on every value and schema of the probe sets
SpecValidate == InitProbe /\ [][validate_probe]_vars

(***************************************************************************)
(* Configuration: agents whose manifest has, or has not, a config default, *)
(* initialized and shut down with any of the caller configurations.        *)
(***************************************************************************)
\* self.manifest.get('config', {}) of the agents explored
ManifestConfigs == {EmptyMap, Manifest.config}

\* the config argument of initialize (None is replaced by the empty mapping)
ConfigArgs ==
    {EmptyMap, [timeout |-> 30], [retries |-> 1], [timeout |-> 30, mode |-> 2]}

InitConfig ==
    /\ InitAttributes
    /\ manifest_config \in ManifestConfigs
    /\ built = NoBuild
    /\ probe = NoProbe

NextConfig ==
    \/ \E ctx \in Contexts, cfg \in ConfigArgs : initialize_call(ctx, cfg)
    \/ \E ok \in HookReturns : initialize_return(ok)
    \/ shutdown_call
    \/ \E ok \in HookReturns : shutdown_return(ok)

SpecConfig == InitConfig /\ [][NextConfig]_vars

(***************************************************************************)
(* Construction.  A manifest is the set of its keys and the set of the     *)
(* keys of its metadata mapping.                                           *)
(***************************************************************************)
required_fields ==
    <<"id", "name", "version", "description", "runtime", "inputs", "outputs",
      "metadata">>

required_metadata == <<"author", "tags", "category">>

\* the elements of a list
Elements(list) == {list[i] : i \in DOMAIN list}

\* the first element of the list that the mapping does not have
FirstMissing(list, keys) ==
    list[CHOOSE i \in DOMAIN list :
            /\ list[i] \notin keys
            /\ \A j \in 1..(i - 1) : list[j] \in keys]

\* variant: the metadata mapping is not looked into
_validate_manifest_fields_only(keys, metadata) ==
    IF \E field \in Elements(required_fields) : field \notin keys
    THEN Raise("ValueError", "field", FirstMissing(required_fields, keys))
    ELSE NoError

_validate_manifest(keys, metadata) ==
    IF \E field \in Elements(required_fields) : field \notin keys
    THEN Raise("ValueError", "field", FirstMissing(required_fields, keys))
    ELSE IF \E field \in Elements(required_metadata) : field \notin metadata
    THEN Raise("ValueError", "metadata",
               FirstMissing(required_metadata, metadata))
    ELSE NoError

\* an attribute that has not been assigned
Unset == "unset"

\* the constructor is about to be called on any manifest; a manifest
\* without the key metadata has no metadata mapping
InitConstruct ==
    /\ handlers = Unset
    /\ is_running = Unset
    /\ context = Unset
    /\ config = Unset
    /\ health = Unset
    /\ manifest_config = EmptyMap
    /\ hist = "new"
    /\ pcInit = 0
    /\ pcShut = 0
    /\ nextTask = 0
    /\ taskEvents = EmptyMap
    /\ shutdown_emitted = FALSE
    /\ lastOp = NoOp
    /\ probe = NoProbe
    /\ \E keys \in SUBSET Elements(required_fields),
          metadata \in SUBSET Elements(required_metadata) :
          /\ "metadata" \notin keys => metadata = {}
          /\ built = [NoBuild EXCEPT !.keys = keys, !.metadata = metadata]

\* BaseAgent.__init__(manifest): the attributes are assigned, then the
\* manifest is validated
__init__ ==
    /\ ~built.done
    /\ context' = "None"
    /\ config' = EmptyMap
    /\ is_running' = FALSE
    /\ health' = InitialHealth
    /\ handlers' = [t \in EventTypes |-> <<>>]
    /\ built' = [built EXCEPT
                    !.result = _validate_manifest(built.keys, built.metadata),
                    !.done = TRUE]
    /\ lastOp' = [NoOp EXCEPT !.op = "__init__"]
    /\ UNCHANGED <<probe, manifest_config, shutdown_emitted, hist, pcInit,
                   pcShut, nextTask, taskEvents>>

\* the constructor on every manifest
SpecConstruct == InitConstruct /\ [][__init__]_vars

HealthEvents == {"health:updated", "log"}

NextHealth ==
    \/ \E t \in HealthEvents, k \in Kinds : on_event(t, k)
    \/ \E u \in HealthUpdates : update_health(u)

\* health reporting: subscriptions and health updates
SpecHealth == Init /\ [][NextHealth]_vars

(***************************************************************************)
(* Sessions: every operation of an agent that is initialized with any of   *)
(* two contexts, without subscribers.                                      *)
(***************************************************************************)
SessionContexts == {"s1", "s2"}

SessionHealthUpdates == {[status |-> "degraded"]}

NextSession ==
    \/ \E ctx \in SessionContexts, cfg \in Configs : initialize_call(ctx, cfg)
    \/ \E ok \in HookReturns : initialize_return(ok)
    \/ shutdown_call
    \/ \E ok \in HookReturns : shutdown_return(ok)
    \/ \E input_data \in Inputs : execute_call(input_data)
    \/ \E task_id \in inflight, result \in HookResults :
          execute_return(task_id, TRUE, result)
    \/ \E task_id \in inflight : execute_return(task_id, FALSE, EmptyMap)
    \/ \E task_id \in inflight : execute_cancelled(task_id)
    \/ \E u \in SessionHealthUpdates : update_health(u)
    \/ \E level \in LogLevels, data \in LogData : log_call(level, data)
    \/ publish_event

SpecSession == Init /\ [][NextSession]_vars

(***************************************************************************)
(* Properties.                                                             *)
(***************************************************************************)
\* an execute call that got a task identifier and has finished
FinishedTask == lastOp.op = "execute" /\ lastOp.task # 0 /\ ~lastOp.pending

\* the step just taken is the entry of an execute call
ExecuteEntry == lastOp.op = "execute" /\ lastOp.step = "call"

\* C1: every execute call made while running emits exactly one task:started
\* followed by exactly one terminal event, task:completed or task:failed,
\* whatever handlers are subscribed.
C1_OneStartedOneTerminal ==
    /\ FinishedTask =>
          lastOp.events \in {<<"task:started", "task:completed">>,
                             <<"task:started", "task:failed">>}
    /\ \A t \in inflight : taskEvents[t] = <<"task:started">>

\* C2: the agent is running exactly when an initialize call has completed
\* with its hook returning and no shutdown call was made since; it is not
\* running after an initialize whose hook failed, and execute is rejected
\* in that state.
C2_RunningIffInitialized ==
    /\ pcInit = 0 => (is_running <=> hist = "init_ok")
    /\ lastOp.op = "initialize" /\ lastOp.hook = "raised" => ~is_running
    /\ ExecuteEntry /\ lastOp.pre_hist = "init_fail" =>
          lastOp.exc = "RuntimeError"

\* C3: on an agent not yet initialized or already shut down, execute fails
\* with the not-running error, emits no task event (no event at all), and
\* does not invoke on_execute.
C3_NotRunningRejected ==
    ExecuteEntry /\ lastOp.pre_hist \in {"new", "shut"} =>
        /\ lastOp.exc = "RuntimeError"
        /\ ~lastOp.returned /\ ~lastOp.pending
        /\ lastOp.task = 0
        /\ lastOp.events = <<>>
        /\ lastOp.trace = <<>>
        /\ lastOp.hook = "none"

C3_Witness ==
    /\ ExecuteEntry /\ lastOp.pre_hist = "shut"
    /\ context # "None"
    /\ lastOp.exc = "RuntimeError"

\* the failure of input validation, of the hook, or of output validation
FailedInside ==
    /\ FinishedTask
    /\ lastOp.verr.exc # "none" \/ lastOp.hook = "raised"

\* C4: when input validation, on_execute or output validation fails,
\* task:failed is emitted for the task and then that same failure is
\* propagated; no result is returned and task:completed is not emitted.
C4_FailureReportedThenPropagated ==
    FailedInside =>
        /\ lastOp.events = <<"task:started", "task:failed">>
        /\ ~lastOp.returned
        /\ lastOp.exc = IF lastOp.hook = "raised" THEN "HookError"
                                                  ELSE lastOp.verr.exc

\* C5: on_execute is invoked only after the input passed validation: an
\* invalid input fails with a validation error and never reaches the hook,
\* a valid input reaches the hook.
C5_HookOnlyAfterValidInput ==
    ExecuteEntry /\ lastOp.pre_running =>
        IF _validate_input(lastOp.arg).exc = "none"
        THEN lastOp.hook = "called" /\ lastOp.exc = "none"
        ELSE /\ lastOp.hook = "none"
             /\ lastOp.exc = _validate_input(lastOp.arg).exc

\* the event type a synchronous emitting operation emits
EmittedType ==
    CASE lastOp.op = "publish_event" -> "event:published"
      [] lastOp.op = "log" -> "log"
      [] OTHER -> "none"

\* the step emitted the event of its operation (a log call in which the
\* Python logger raises emits nothing)
Emission == EmittedType # "none" /\ lastOp.trace # <<>>

\* indices of the handlers the outermost emission invoked, in order
Invoked == SelectSeq(lastOp.trace, LAMBDA e : e.k # "emit" /\ e.d = 1)

Indices(calls) == [j \in 1..Len(calls) |-> calls[j].i]

Registered == lastOp.pre_handlers[EmittedType]

\* C6: handlers of one event type are invoked in subscription order, and a
\* raising handler does not keep a later-subscribed handler of that type
\* from receiving the event.
C6_SubscriptionOrderAndIsolation ==
    Emission =>
        LET old == SelectSeq(Invoked, LAMBDA e : e.i <= Len(Registered))
        IN  Indices(old) = [j \in 1..Len(Registered) |-> j]

\* C7: for every event type, log included, a handler failure never leaves
\* the emitting call: it is reported by one log event and the emission
\* returns normally.
C7_HandlerFailureNeverPropagates ==
    Emission =>
        /\ lastOp.exc = "none" /\ lastOp.returned
        /\ \A j \in 1..Len(lastOp.trace) :
              lastOp.trace[j].k = "raised" /\ lastOp.trace[j].d = 1 =>
                 /\ j < Len(lastOp.trace)
                 /\ lastOp.trace[j + 1] = EmitMark("log", 2)

\* C8: an emission of type T invokes exactly the handlers registered for T
\* when it started, once each, and none subscribed during the delivery;
\* with no subscriber it invokes nothing and changes no state.
C8_ExactlyTheRegisteredHandlers ==
    Emission =>
        /\ Indices(Invoked) = [j \in 1..Len(Registered) |-> j]
        /\ \A j \in 1..Len(Invoked) : Invoked[j].ev = EmittedType
        /\ Registered = <<>> =>
              handlers = lastOp.pre_handlers /\ Len(lastOp.trace) = 1

DeclaredOutputs == {Manifest.outputs[j].key : j \in 1..Len(Manifest.outputs)}

RequiredInputs ==
    {Manifest.inputs[j].key :
        j \in {n \in 1..Len(Manifest.inputs) : Manifest.inputs[n].schema.required}}

\* C9: output validation requires every declared output, whatever its
\* required flag (a missing one fails the task: task:failed, no
\* task:completed); input validation rejects an absent field only when it
\* is required and accepts an absent optional field.
C9_OutputsAllRequiredInputsByFlag ==
    /\ FinishedTask /\ lastOp.hook = "returned"
         /\ ~(DeclaredOutputs \subseteq DOMAIN lastOp.arg) =>
            /\ lastOp.events = <<"task:started", "task:failed">>
            /\ ~lastOp.returned
    /\ ExecuteEntry /\ lastOp.verr.constraint = "missing" =>
            /\ lastOp.verr.path \in RequiredInputs
            /\ lastOp.verr.path \notin DOMAIN lastOp.arg
    /\ ExecuteEntry /\ lastOp.pre_running /\ lastOp.orig # "RecursionError"
         /\ lastOp.arg = [k \in {"amount"} |-> PyInt(10)] =>
            lastOp.hook = "called"

C9_Witness ==
    /\ FinishedTask /\ lastOp.hook = "returned"
    /\ lastOp.arg = [k \in {"result"} |-> PyInt(1)]
    /\ lastOp.events = <<"task:started", "task:failed">>
    /\ lastOp.verr = Raise("ValueError", "missing", "extra")

\* the event an operation emits on behalf of its hook
HookEvent ==
    CASE lastOp.op = "initialize" -> "agent:initialized"
      [] lastOp.op = "shutdown" -> "agent:shutdown"
      [] OTHER -> "task:failed"

\* the hook raised an Exception
HookRaised == lastOp.hook = "raised"

\* the await of the hook ended with a BaseException that is not an
\* Exception
HookCancelled == lastOp.hook = "cancelled"

\* C10 as stated: when a hook raises, the event of its operation is
\* emitted and then the hook's exception is propagated unchanged.
C10_EventThenHookError ==
    HookRaised =>
        /\ lastOp.trace # <<>>
        /\ lastOp.trace[1] = EmitMark(HookEvent, 1)
        /\ lastOp.exc = "HookError"

\* the delivery of task:failed ran into the recursion limit
FailedDeliveryOverflowed ==
    /\ lastOp.trace # <<>>
    /\ lastOp.trace[Len(lastOp.trace)].k = "raised"
    /\ lastOp.trace[Len(lastOp.trace)].d = RecursionLimit

\* C10 amended: an on_execute that raises an Exception is followed by one
\* task:failed for the task and then its exception propagates unless the
\* delivery of task:failed itself ends in RecursionError, which then
\* propagates; an on_execute that ends with a BaseException that is not an
\* Exception propagates it and no task:failed is emitted; a raising
\* on_initialize or on_shutdown propagates unchanged and no
\* agent:initialized or agent:shutdown event is emitted; the hook was
\* invoked once and the operation does not return.
C10_HookErrorPropagates ==
    /\ HookRaised =>
          /\ ~lastOp.returned /\ ~lastOp.pending
          /\ lastOp.orig = "HookError"
          /\ lastOp.op = "execute" =>
                /\ lastOp.events = <<"task:started", "task:failed">>
                /\ lastOp.trace[1] = EmitMark("task:failed", 1)
                /\ Len(SelectSeq(lastOp.trace,
                        LAMBDA e : e = EmitMark("task:failed", 1))) = 1
                /\ lastOp.exc = IF FailedDeliveryOverflowed
                                THEN "RecursionError" ELSE "HookError"
          /\ lastOp.op \in {"initialize", "shutdown"} =>
                /\ lastOp.trace = <<>>
                /\ lastOp.exc = "HookError"
    /\ HookCancelled =>
          /\ ~lastOp.returned /\ ~lastOp.pending
          /\ lastOp.op = "execute"
          /\ lastOp.exc = "CancelledError"
          /\ lastOp.events = <<"task:started">>
          /\ lastOp.trace = <<>>

C10_Witness ==
    /\ lastOp.op = "initialize" /\ HookRaised
    /\ lastOp.exc = "HookError"
    /\ lastOp.trace = <<>>
    /\ is_running
\* the mapping a component of the health record holds after an update that
\* gave the mapping "given" for it
MergedPerKey(after, before, given) ==
    /\ DOMAIN after = DOMAIN before \cup DOMAIN given
    /\ \A k \in DOMAIN after :
          after[k] = IF k \in DOMAIN given THEN given[k] ELSE before[k]

\* C11: a health update replaces the status when a status is given, sets
\* each key of a given details or metrics mapping to the given value and
\* retains every other key, and leaves a component that is not given as it
\* is; no other operation changes the health record.
C11_HealthMergedPerKey ==
    [][IF lastOp'.op = "update_health"
       THEN LET u == lastOp'.arg
            IN  /\ health'.status = IF HasKey(u, "status") THEN u.status
                                    ELSE health.status
                /\ \A part \in {"details", "metrics"} :
                      IF HasKey(u, part)
                      THEN MergedPerKey(health'[part], health[part], u[part])
                      ELSE health'[part] = health[part]
       ELSE health' = health]_vars

\* metrics={a:1}, then metrics={b:2}, then metrics={a:3}
C11_Witness ==
    /\ lastOp.op = "update_health"
    /\ lastOp.arg = [metrics |-> [a |-> 3]]
    /\ health.metrics = [a |-> 3, b |-> 2]

\* The declared type matches the runtime shape of the value: a number is
\* an integer or a floating-point value, a boolean is a boolean.
ShapeMatches(value, ty) ==
    CASE ty = "array"   -> value.t = "list"
      [] ty = "object"  -> value.t = "dict"
      [] ty \in {"string", "text"} -> value.t = "str"
      [] ty = "number"  -> value.t \in {"int", "float"}
      [] ty = "boolean" -> value.t = "bool"

ConstraintNames == {"min", "max", "minLength", "maxLength", "pattern", "enum"}

\* a constraint has a meaning for the value: the numeric bounds compare
\* numbers
Applies(c, value) == c \in {"min", "max"} => value.t \in {"int", "float"}

\* the value violates constraint c of the mapping: numeric bounds compare
\* numerically, length bounds compare the length of the string
\* representation, a pattern must match the whole string representation,
\* an enum must contain the value
Violates(value, c, constraints) ==
    CASE c = "min"       -> Applies(c, value) /\ value.v < constraints.min
      [] c = "max"       -> Applies(c, value) /\ value.v > constraints.max
      [] c = "minLength" -> Len(StrOf(value)) < constraints.minLength
      [] c = "maxLength" -> Len(StrOf(value)) > constraints.maxLength
      [] c = "pattern"   -> StrOf(value) # constraints.pattern.lit
      [] c = "enum"      ->
            ~\E e \in constraints.enum : e.t = value.t /\ e.v = value.v

\* the constraints of the probed schema that the probed value violates
Violated ==
    {c \in DOMAIN probe.schema.constraints :
        Violates(probe.value, c, probe.schema.constraints)}

\* a probe the claim speaks about: a value of the declared type under
\* constraints that have a meaning for it
TypeCorrectProbe ==
    /\ probe.done
    /\ ShapeMatches(probe.value, probe.schema.type)
    /\ \A c \in DOMAIN probe.schema.constraints : Applies(c, probe.value)

\* C12: a value that satisfies its field schema (type and every constraint)
\* passes validation, and a value of the declared type that violates
\* exactly one constraint fails with a validation error naming that
\* constraint and the field path.
C12_SatisfyingPassesViolatingFails ==
    TypeCorrectProbe =>
        /\ Violated = {} => probe.result = NoError
        /\ \A c \in ConstraintNames :
              Violated = {c} =>
                  probe.result = Raise("ValueError", c, probe.path)

\* C13: the type check fails with a type-mismatch validation error for the
\* field exactly when the runtime shape of the value does not match the
\* declared type; in particular a boolean is not a number.
C13_TypeCheckAcceptsExactlyMatchingShape ==
    probe.done =>
        (probe.result = Raise("ValueError", "type", probe.path)
            <=> ~ShapeMatches(probe.value, probe.schema.type))

\* C14: an initialize call leaves as configuration the manifest's default
\* config overlaid with the caller's mapping: caller keys have the caller's
\* values, the other default keys their defaults, and there is no other
\* key; without a manifest default it is the caller's mapping.  No other
\* step changes the configuration.
C14_ConfigIsDefaultsOverlaid ==
    [][IF lastOp'.op = "initialize" /\ lastOp'.step = "call"
       THEN LET caller == lastOp'.arg
            IN  /\ DOMAIN config' = DOMAIN manifest_config \cup DOMAIN caller
                /\ \A k \in DOMAIN caller : config'[k] = caller[k]
                /\ \A k \in DOMAIN manifest_config \ DOMAIN caller :
                      config'[k] = manifest_config[k]
                /\ manifest_config = EmptyMap => config' = caller
       ELSE config' = config]_vars

\* a caller value has won over the default of its key, and a default that
\* the caller did not supply is kept
C14_Witness ==
    /\ lastOp.op = "initialize"
    /\ lastOp.step = "return"
    /\ manifest_config = [retries |-> 1, timeout |-> 10]
    /\ config = [retries |-> 1, timeout |-> 30]

\* C15: construction fails with a manifest error if and only if the
\* manifest lacks one of id, name, version, description, runtime, inputs,
\* outputs, metadata, or its metadata lacks one of author, tags, category;
\* an agent that is constructed is not running.
C15_ConstructionFailsIffKeyMissing ==
    built.done =>
        /\ built.result.exc = "ValueError"
              <=> \/ \E k \in {"id", "name", "version", "description",
                               "runtime", "inputs", "outputs", "metadata"} :
                        k \notin built.keys
                  \/ \E k \in {"author", "tags", "category"} :
                        k \notin built.metadata
        /\ built.result.exc \in {"none", "ValueError"}
        /\ built.result = NoError => is_running = FALSE

\* a manifest with every key whose metadata lacks only category is refused
C15_Witness ==
    /\ built.done
    /\ built.keys = Elements(required_fields)
    /\ built.metadata = {"author", "tags"}
    /\ built.result = Raise("ValueError", "metadata", "category")

\* the step ends an execute call that was suspended in on_execute
FinishesCall == lastOp'.task \in inflight /\ lastOp'.task \notin inflight'

TerminalEvents == {"task:completed", "task:failed"}

\* C16: overlapping execute calls have identifiers of their own: a call
\* gets an identifier that no earlier call got, the events a call emits
\* carry the identifier of that call, a step of one call leaves every other
\* suspended call suspended with its events as they were, and a call that
\* ends has emitted its own task:started and then only terminal events of
\* its own: task:failed when its own hook raised or its own output was
\* invalid, task:completed when it returns, none when it was cancelled.
C16_OverlappingCallsAreIndependent ==
    [][/\ nextTask' # nextTask =>
            /\ lastOp'.task = nextTask'
            /\ lastOp'.task \notin 1..nextTask
            /\ lastOp'.task \notin inflight
       /\ lastOp'.op = "execute" /\ lastOp'.events # <<>> =>
            lastOp'.carried = IF lastOp'.hook = "cancelled" THEN {}
                              ELSE {lastOp'.task}
       /\ lastOp'.op = "execute" =>
            \A t \in inflight \ {lastOp'.task} :
                t \in inflight' /\ taskEvents'[t] = taskEvents[t]
       /\ FinishesCall =>
            LET events == lastOp'.events
            IN  /\ taskEvents[lastOp'.task] = <<"task:started">>
                /\ events[1] = "task:started"
                /\ \A i \in 2..Len(events) : events[i] \in TerminalEvents
                /\ lastOp'.hook = "cancelled" => events = <<"task:started">>
                /\ lastOp'.hook = "raised" \/ lastOp'.verr # NoError =>
                      events = <<"task:started", "task:failed">>
                /\ lastOp'.returned =>
                      events = <<"task:started", "task:completed">>]_vars

\* two calls overlap, and one has failed while the other is still suspended
\* in its hook with its own task:started
C16_Witness ==
    /\ lastOp.op = "execute"
    /\ lastOp.step = "return"
    /\ lastOp.task = 1
    /\ lastOp.hook = "raised"
    /\ lastOp.events = <<"task:started", "task:failed">>
    /\ inflight = {2}
    /\ taskEvents[2] = <<"task:started">>

\* C17: only the entry of execute checks that the agent is running.  A
\* shutdown call leaves every suspended execute call suspended; when its
\* hook returns or raises an Exception, whether the agent is running or
\* not, the call validates the output and emits its terminal event, is
\* never refused as not running, and returns normally when the output is
\* valid and the delivery of its events does not raise.
C17_RunningCheckedOnlyOnEntry ==
    [][/\ lastOp'.op = "shutdown" => taskEvents' = taskEvents
       /\ FinishesCall =>
            /\ lastOp'.exc # "RuntimeError"
            /\ lastOp'.hook \in {"returned", "raised"} =>
                  lastOp'.events[Len(lastOp'.events)] \in TerminalEvents
            /\ lastOp'.hook = "returned" =>
                  /\ lastOp'.verr = _validate_output(lastOp'.arg)
                  /\ lastOp'.verr = NoError =>
                        lastOp'.returned \/ lastOp'.exc = "RecursionError"]_vars

\* an execute call has returned normally, emitting task:completed, after
\* agent:shutdown was emitted and while the agent is not running
C17_Witness ==
    /\ lastOp.op = "execute"
    /\ lastOp.step = "return"
    /\ lastOp.returned
    /\ lastOp.events = <<"task:started", "task:completed">>
    /\ ~lastOp.pre_running
    /\ ~is_running
    /\ shutdown_emitted

\* the emissions of agent:shutdown in the trace of the last step
ShutdownEmissions(trace) ==
    {i \in DOMAIN trace : trace[i] = EmitMark("agent:shutdown", 1)}

\* C18: shutdown is not guarded by the lifecycle state.  A shutdown call
\* can be made in every state; it sets is_running to false and invokes
\* on_shutdown; when the hook returns the call emits agent:shutdown
\* exactly once, and when the hook raises it emits nothing.
C18_ShutdownIsUnguarded ==
    /\ [](pcInit + pcShut < MaxLifecycleCalls => ENABLED shutdown_call)
    /\ [][lastOp'.op = "shutdown" =>
            /\ lastOp'.step = "call" =>
                  /\ ~is_running'
                  /\ lastOp'.hook = "called"
                  /\ pcShut' > 0
            /\ lastOp'.step = "return" /\ lastOp'.hook = "returned" =>
                  /\ lastOp'.trace # <<>>
                  /\ lastOp'.trace[1] = EmitMark("agent:shutdown", 1)
                  /\ Cardinality(ShutdownEmissions(lastOp'.trace)) = 1
            /\ lastOp'.step = "return" /\ lastOp'.hook = "raised" =>
                  lastOp'.trace = <<>>]_vars

\* a shutdown call on an agent that a completed shutdown has already
\* terminated invokes the hook again
C18_Witness ==
    /\ lastOp.op = "shutdown"
    /\ lastOp.step = "call"
    /\ lastOp.hook = "called"
    /\ lastOp.pre_hist = "shut"
    /\ ~lastOp.pre_running
    /\ shutdown_emitted

\* C19: once initialize has stored a context, no step of any operation
\* (execute, update_health, log, shutdown, a further initialize call)
\* replaces or clears the stored context.
C19_StoredContextNeverChanges ==
    [][context # "None" => context' = context]_vars

====
